---- MODULE Spec2Model ----
(***************************************************************************)
(* tokio-dtrace: the hook registrar (register_hooks), the eight runtime    *)
(* hook functions of the `hooks` module, the metadata unpacker, the        *)
(* layout guard of id_to_u64 and the USDT probe provider, as a state       *)
(* machine.  The Tokio runtime builder, the runtime's dispatch of its      *)
(* lifecycle callbacks, the usdt crate and the DTrace consumer are the     *)
(* environment; they are modelled at the interface src/src/lib.rs uses.    *)
(***************************************************************************)
EXTENDS Integers, Sequences, FiniteSets, TLC

\* ------------------------------------------------------------- bounds

\* Calls of register_hooks in one behaviour (over all builders).
MaxRegisterCalls == 2
\* Runtime lifecycle events dispatched to the callbacks.
MaxEvents == 2

\* ---------------------------------------------------------- constants

\* size_of::<u64>() and align_of::<u64>(), in bytes.
U64Size == 8
U64Align == 8
\* A byte holds 0 .. ByteMod - 1.  A u64 value is written as four 16-bit
\* limbs, least significant first (TLC's integers are 32 bits wide).
ByteMod == 2^8

ThreadSlots ==
    {"on_thread_start", "on_thread_park", "on_thread_unpark", "on_thread_stop"}
TaskSlots ==
    {"on_task_spawn", "on_before_task_poll", "on_after_task_poll",
     "on_task_terminate"}
Slots == ThreadSlots \cup TaskSlots

\* The callback a slot may hold.
Unset == "unset"
\* The application's own callbacks: a wrapper that calls the tokio-dtrace
\* hook of its slot and then other code (lib.rs 262-267), and a function
\* that has nothing to do with tokio-dtrace.
UserFn == "user::wrapper"
OtherFn == "user::other"

TaskProbes ==
    {"task__spawn", "task__poll__start", "task__poll__end", "task__terminate"}
ThreadProbes ==
    {"worker__thread__start", "worker__thread__stop", "worker__thread__park",
     "worker__thread__unpark"}
Probes == TaskProbes \cup ThreadProbes

\* (a slip: the park and unpark hooks exchanged)
RegisteredHook_swapped ==
    [on_thread_start     |-> "hooks::on_thread_start",
     on_thread_park      |-> "hooks::on_thread_unpark",
     on_thread_unpark    |-> "hooks::on_thread_park",
     on_thread_stop      |-> "hooks::on_thread_stop",
     on_task_spawn       |-> "hooks::on_task_spawn",
     on_before_task_poll |-> "hooks::on_before_task_poll",
     on_after_task_poll  |-> "hooks::on_after_task_poll",
     on_task_terminate   |-> "hooks::on_task_terminate"]

\* The function register_hooks passes to the setter of each slot
\* (lib.rs 197-204).
RegisteredHook ==
    [on_thread_start     |-> "hooks::on_thread_start",
     on_thread_park      |-> "hooks::on_thread_park",
     on_thread_unpark    |-> "hooks::on_thread_unpark",
     on_thread_stop      |-> "hooks::on_thread_stop",
     on_task_spawn       |-> "hooks::on_task_spawn",
     on_before_task_poll |-> "hooks::on_before_task_poll",
     on_after_task_poll  |-> "hooks::on_after_task_poll",
     on_task_terminate   |-> "hooks::on_task_terminate"]

HookFns == {RegisteredHook[s] : s \in Slots}
Callbacks == {Unset, UserFn, OtherFn} \cup HookFns

\* -------------------------------------------------- task identifiers

\* A tokio::task::Id is opaque: the model knows its memory, a sequence of
\* bytes, least significant first.
U64FromBytes(bs) ==
    [i \in 1..4 |-> bs[2 * i - 1] + ByteMod * bs[2 * i]]

U64ToBytes(v) ==
    [i \in 1..U64Size |->
        IF i % 2 = 1 THEN v[(i + 1) \div 2] % ByteMod
                     ELSE v[i \div 2] \div ByteMod]

\* std::mem::transmute::<_, u64>(id): the bytes of the source read as a u64.
transmute(id) == U64FromBytes(id)

\* (a slip: the alignment assertion left out)
LayoutGuard_size_only(layout) == layout.size = U64Size

\* The const assertions of id_to_u64 (lib.rs 418-421).
LayoutGuard(layout) ==
    /\ layout.size = U64Size
    /\ layout.align = U64Align

\* (a slip: the identifier cast through 32 bits)
id_to_u64_truncating(id) ==
    [i \in 1..4 |-> IF i <= 2 THEN transmute(id)[i] ELSE 0]

id_to_u64(id) == transmute(id)

\* location.file().to_string() copies the characters of the &str.
unpack_meta(meta) ==
    LET id == id_to_u64(meta.id)
        location == meta.spawned_at
        file == location.file
        line == location.line
        col == location.column
    IN  <<id, file, line, col>>

\* ------------------------------------------------------------ probes

\* (a slip: the arguments computed before the probe is known to be enabled)
ProbeSite_eager(probe, en, args) ==
    [probe |-> probe, enabled |-> probe \in en, args |-> args]

\* A probe macro of the usdt provider, probes::name!(|| args): the argument
\* closure is evaluated, and the probe fired with its result, only while
\* DTrace has the probe enabled.  The result is the one execution of the
\* probe site.
ProbeSite(probe, en, args) ==
    [probe |-> probe,
     enabled |-> probe \in en,
     args |-> IF probe \in en THEN args ELSE <<>>]

on_task_spawn(meta, en) ==
    <<ProbeSite("task__spawn", en, unpack_meta(meta))>>

\* (a slip: the poll-start hook firing the spawn probe)
on_before_task_poll_spawn(meta, en) ==
    <<ProbeSite("task__spawn", en, unpack_meta(meta))>>

on_before_task_poll(meta, en) ==
    <<ProbeSite("task__poll__start", en, unpack_meta(meta))>>

\* (a slip: the poll-end hook firing the poll-start probe)
on_after_task_poll_start(meta, en) ==
    <<ProbeSite("task__poll__start", en, unpack_meta(meta))>>

on_after_task_poll(meta, en) ==
    <<ProbeSite("task__poll__end", en, unpack_meta(meta))>>

on_task_terminate(meta, en) ==
    <<ProbeSite("task__terminate", en, unpack_meta(meta))>>

on_thread_start(en) == <<ProbeSite("worker__thread__start", en, <<>>)>>

on_thread_stop(en) == <<ProbeSite("worker__thread__stop", en, <<>>)>>

on_thread_park(en) == <<ProbeSite("worker__thread__park", en, <<>>)>>

on_thread_unpark(en) == <<ProbeSite("worker__thread__unpark", en, <<>>)>>

\* A call of the function named fn, as the runtime (or a wrapper) makes it.
CallHook(fn, meta, en) ==
    CASE fn = "hooks::on_task_spawn"       -> on_task_spawn(meta, en)
      [] fn = "hooks::on_before_task_poll" -> on_before_task_poll(meta, en)
      [] fn = "hooks::on_after_task_poll"  -> on_after_task_poll(meta, en)
      [] fn = "hooks::on_task_terminate"   -> on_task_terminate(meta, en)
      [] fn = "hooks::on_thread_start"     -> on_thread_start(en)
      [] fn = "hooks::on_thread_stop"      -> on_thread_stop(en)
      [] fn = "hooks::on_thread_park"      -> on_thread_park(en)
      [] fn = "hooks::on_thread_unpark"    -> on_thread_unpark(en)

\* The callback a slot holds, run for one event of that slot.  The
\* application's wrapper (lib.rs 262-267) calls the tokio-dtrace hook of its
\* slot and then its own code; an unset slot runs nothing.
RunCallback(cb, slot, meta, en) ==
    CASE cb = Unset   -> <<>>
      [] cb = OtherFn -> <<>>
      [] cb = UserFn  -> CallHook(RegisteredHook[slot], meta, en)
      [] OTHER        -> CallHook(cb, meta, en)

\* --------------------------------------------------------------- state

VARIABLES
    tokio_unstable,  \* the build has --cfg tokio_unstable
    idLayout,        \* size and alignment of tokio::task::Id in this build
    compiled,        \* "source", then "ok" or "error" (the build failed)
    guardEvaluated,  \* the const assertions of id_to_u64 were evaluated
    usdtRegistered,  \* usdt::register_probes has succeeded in this process
    builder,         \* each tokio::runtime::Builder: its slots and settings
    last,            \* the last register_hooks call: what it was given, what it did
    rt,              \* the runtime built: the callbacks it carries
    thread,          \* each worker thread: the callback it is in, what it fired
    enabled,         \* the probes a DTrace consumer has enabled
    dtrace,          \* what DTrace recorded: the probe firings, in order
    nRegister,       \* calls of register_hooks so far
    nOk,             \* of them, the successful ones on each builder
    nEvents,         \* lifecycle events dispatched so far
    um_in, um_out    \* the metadata unpacker on its own: input, output

vars ==
    <<tokio_unstable, idLayout, compiled, guardEvaluated, usdtRegistered,
      builder, last, rt, thread, enabled, dtrace, nRegister, nOk, nEvents,
      um_in, um_out>>

\* The layouts a version of Tokio may give tokio::task::Id.
\* (A size is a multiple of the alignment.)
IdLayouts ==
    {[size |-> U64Size, align |-> U64Align],
     [size |-> U64Size, align |-> 4],
     [size |-> 4, align |-> 4]}

\* A little-endian u64 in memory: n0 is the low byte, n4 the fifth, n7 the top.
IdBytes(n0, n4, n7) == <<n0, 0, 0, 0, n4, 0, 0, n7>>

NoMeta == [id |-> <<>>, spawned_at |-> [file |-> "", line |-> 0, column |-> 0]]

\* The tasks of the runtime: 42 spawned at app.rs:7:3, and a task whose
\* identifier has bits above the 32nd, spawned at lib.rs:3:7.
TaskMetas ==
    {[id |-> IdBytes(42, 0, 0),
      spawned_at |-> [file |-> "app.rs", line |-> 7, column |-> 3]],
     [id |-> IdBytes(1, 1, 128),
      spawned_at |-> [file |-> "lib.rs", line |-> 3, column |-> 7]]}

\* What usdt::register_probes() may return.
UsdtResults ==
    {[ok |-> TRUE, err |-> ""],
     [ok |-> FALSE, err |-> "usdt::Error::IO"],
     [ok |-> FALSE, err |-> "usdt::Error::LibDtrace"]}

\* The probes a DTrace consumer may enable: none, the task probes, all.
ProbeSelections == {{}, TaskProbes, Probes}

\* The other settings of a builder the application may turn on.
Settings == {"enable_all"}

\* The slots the application sets callbacks of its own in: one task hook,
\* one thread hook.
UserSlots == {"on_task_spawn", "on_thread_park"}

FreshBuilder == [slots |-> [s \in Slots |-> Unset], settings |-> {}]

\* Nothing observed: the last step was no call on a builder.
NoCall ==
    [op |-> "none", b |-> "", pre |-> FreshBuilder, regBefore |-> FALSE,
     okBefore |-> 0,
     probes |-> [ok |-> FALSE, err |-> ""],
     out |-> [tag |-> "", err |-> "", source |-> "", handle |-> ""],
     backendCalled |-> FALSE, slot |-> "", fn |-> ""]

NoRt ==
    [built |-> FALSE, from |-> "", regs |-> 0,
     slots |-> [s \in Slots |-> Unset]]

IdleThread ==
    [pc |-> "idle", slot |-> "", cb |-> Unset, meta |-> NoMeta,
     sites |-> <<>>, polling |-> NoMeta]

\* The source of a program with the builders bs and a runtime of the worker
\* threads ts, before it is built, in any build configuration.
InitWith(bs, ts) ==
    /\ tokio_unstable \in BOOLEAN
    /\ idLayout \in IdLayouts
    /\ compiled = "source"
    /\ guardEvaluated = FALSE
    /\ usdtRegistered = FALSE
    /\ builder = [b \in bs |-> FreshBuilder]
    /\ last = NoCall
    /\ rt = NoRt
    /\ thread = [t \in ts |-> IdleThread]
    /\ enabled = {}
    /\ dtrace = <<>>
    /\ nRegister = 0
    /\ nOk = [b \in bs |-> 0]
    /\ nEvents = 0
    /\ um_in = NoMeta
    /\ um_out = <<>>

\* examples/basic.rs: one builder, and here one worker thread.
Init == InitWith({"b1"}, {"w1"})

\* ------------------------------------------------------- the registrar

\* (a slip: a setter that keeps the callback a slot already holds)
SetHook_keeping(bld, slot, fn) ==
    IF bld.slots[slot] = Unset THEN [bld EXCEPT !.slots[slot] = fn] ELSE bld

\* One of tokio::runtime::Builder's hook setters: the slot holds the function
\* given, whatever it held.
SetHook(bld, slot, fn) == [bld EXCEPT !.slots[slot] = fn]

Ok(handle) == [tag |-> "Ok", err |-> "", source |-> "", handle |-> handle]
Err(err, source) ==
    [tag |-> "Err", err |-> err, source |-> source, handle |-> ""]

\* The chain of setter calls of register_hooks (lib.rs 196-204).
InstallHooks(bld) ==
    LET b1 == SetHook(bld, "on_thread_start", RegisteredHook.on_thread_start)
        b2 == SetHook(b1, "on_thread_park", RegisteredHook.on_thread_park)
        b3 == SetHook(b2, "on_thread_unpark", RegisteredHook.on_thread_unpark)
        b4 == SetHook(b3, "on_thread_stop", RegisteredHook.on_thread_stop)
        b5 == SetHook(b4, "on_task_spawn", RegisteredHook.on_task_spawn)
        b6 == SetHook(b5, "on_before_task_poll",
                      RegisteredHook.on_before_task_poll)
        b7 == SetHook(b6, "on_after_task_poll",
                      RegisteredHook.on_after_task_poll)
    IN  SetHook(b7, "on_task_terminate", RegisteredHook.on_task_terminate)

\* (a slip: the result of usdt::register_probes() dropped)
UnstableBlock_ignoring(ref, bld, probes) ==
    [builder |-> InstallHooks(bld), backendCalled |-> TRUE,
     registered |-> probes.ok, out |-> Ok(ref)]

\* (a slip: the hooks installed before the probes are registered)
UnstableBlock_install_first(ref, bld, probes) ==
    [builder |-> InstallHooks(bld), backendCalled |-> TRUE,
     registered |-> probes.ok,
     out |-> IF probes.ok THEN Ok(ref) ELSE Err("DTrace", probes.err)]

\* (a slip: a second registration on a builder refused)
UnstableBlock_once(ref, bld, probes) ==
    IF ~probes.ok \/ bld.slots["on_thread_start"] = RegisteredHook.on_thread_start
    THEN [builder |-> bld, backendCalled |-> TRUE, registered |-> FALSE,
          out |-> Err("DTrace", probes.err)]
    ELSE [builder |-> InstallHooks(bld), backendCalled |-> TRUE,
          registered |-> TRUE, out |-> Ok(ref)]

\* The block of register_hooks under cfg(tokio_unstable) (lib.rs 193-206):
\* `probes` is what usdt::register_probes() returns; on an error the `?`
\* returns it early, through From<usdt::Error>.
UnstableBlock(ref, bld, probes) ==
    IF ~probes.ok
    THEN [builder |-> bld, backendCalled |-> TRUE, registered |-> FALSE,
          out |-> Err("DTrace", probes.err)]
    ELSE [builder |-> InstallHooks(bld), backendCalled |-> TRUE,
          registered |-> TRUE, out |-> Ok(ref)]

\* The block of register_hooks under cfg(not(tokio_unstable)) (lib.rs 207-210).
StableBlock(bld) ==
    [builder |-> bld, backendCalled |-> FALSE, registered |-> FALSE,
     out |-> Err("UnstableFeaturesRequired", "")]

\* (a slip: the cfg attributes left out)
register_hooks_uncfgd(ref, bld, unstable, probes) ==
    UnstableBlock(ref, bld, probes)

\* register_hooks(builder), for the builder `bld` behind the reference `ref`,
\* in a build with or without --cfg tokio_unstable.
register_hooks(ref, bld, unstable, probes) ==
    IF unstable THEN UnstableBlock(ref, bld, probes) ELSE StableBlock(bld)

\* ------------------------------------------------------------- actions

\* The build: rustc evaluates the const block of id_to_u64 when it compiles
\* the hooks module, which exists only under cfg(tokio_unstable).
Compile ==
    /\ compiled = "source"
    /\ IF tokio_unstable
       THEN /\ guardEvaluated' = TRUE
            /\ compiled' = IF LayoutGuard(idLayout) THEN "ok" ELSE "error"
       ELSE /\ guardEvaluated' = FALSE
            /\ compiled' = "ok"
    /\ UNCHANGED <<tokio_unstable, idLayout, usdtRegistered, builder, last, rt,
                   thread, enabled, dtrace, nRegister, nOk, nEvents,
                   um_in, um_out>>

\* (a slip: registration done once per process, behind a flag: a call after
\* the first success, on whichever builder, returns Ok and installs nothing)
RegisterHooks_once_per_process(b) ==
    /\ compiled = "ok"
    /\ ~rt.built
    /\ nRegister < MaxRegisterCalls
    /\ \E probes \in UsdtResults :
          LET r == IF usdtRegistered /\ tokio_unstable
                   THEN [builder |-> builder[b], backendCalled |-> FALSE,
                         registered |-> TRUE, out |-> Ok(b)]
                   ELSE register_hooks(b, builder[b], tokio_unstable, probes)
          IN  /\ builder' = [builder EXCEPT ![b] = r.builder]
              /\ usdtRegistered' = (usdtRegistered \/ r.registered)
              /\ nOk' = [nOk EXCEPT ![b] = @ + (IF r.out.tag = "Ok" THEN 1 ELSE 0)]
              /\ last' = [op |-> "register_hooks", b |-> b, pre |-> builder[b],
                          regBefore |-> usdtRegistered, okBefore |-> nOk[b],
                          probes |-> probes,
                          out |-> r.out, backendCalled |-> r.backendCalled,
                          slot |-> "", fn |-> ""]
    /\ nRegister' = nRegister + 1
    /\ UNCHANGED <<tokio_unstable, idLayout, compiled, guardEvaluated, rt,
                   thread, enabled, dtrace, nEvents, um_in, um_out>>

\* The application calls tokio_dtrace::register_hooks(&mut builder).
RegisterHooks(b) ==
    /\ compiled = "ok"
    /\ ~rt.built
    /\ nRegister < MaxRegisterCalls
    /\ \E probes \in UsdtResults :
          LET r == register_hooks(b, builder[b], tokio_unstable, probes)
          IN  /\ builder' = [builder EXCEPT ![b] = r.builder]
              /\ usdtRegistered' = (usdtRegistered \/ r.registered)
              /\ nOk' = [nOk EXCEPT ![b] = @ + (IF r.out.tag = "Ok" THEN 1 ELSE 0)]
              /\ last' = [op |-> "register_hooks", b |-> b, pre |-> builder[b],
                          regBefore |-> usdtRegistered, okBefore |-> nOk[b],
                          probes |-> probes,
                          out |-> r.out, backendCalled |-> r.backendCalled,
                          slot |-> "", fn |-> ""]
    /\ nRegister' = nRegister + 1
    /\ UNCHANGED <<tokio_unstable, idLayout, compiled, guardEvaluated, rt,
                   thread, enabled, dtrace, nEvents, um_in, um_out>>

\* The callbacks the application can pass to the setter of a slot: Tokio's
\* task hooks, and the hooks module the wrapper calls, exist only under
\* cfg(tokio_unstable).
UserChoices ==
    IF tokio_unstable
    THEN UserSlots \X {UserFn, OtherFn}
    ELSE (UserSlots \cap ThreadSlots) \X {OtherFn}

\* The application sets a hook of the builder itself (lib.rs 331).
UserSetHook(b, slot, fn) ==
    /\ compiled = "ok"
    /\ ~rt.built
    /\ <<slot, fn>> \in UserChoices
    /\ builder[b].slots[slot] # fn
    /\ builder' = [builder EXCEPT ![b] = SetHook(builder[b], slot, fn)]
    /\ last' = [NoCall EXCEPT !.op = "set_hook", !.b = b, !.pre = builder[b],
                               !.slot = slot, !.fn = fn]
    /\ UNCHANGED <<tokio_unstable, idLayout, compiled, guardEvaluated,
                   usdtRegistered, rt, thread, enabled, dtrace, nRegister,
                   nOk, nEvents, um_in, um_out>>

\* The application configures another setting of the builder
\* (examples/basic.rs 10).
Configure(b, opt) ==
    /\ compiled = "ok"
    /\ ~rt.built
    /\ opt \notin builder[b].settings
    /\ builder' = [builder EXCEPT ![b].settings = @ \cup {opt}]
    /\ last' = NoCall
    /\ UNCHANGED <<tokio_unstable, idLayout, compiled, guardEvaluated,
                   usdtRegistered, rt, thread, enabled, dtrace, nRegister,
                   nOk, nEvents, um_in, um_out>>

\* The application calls usdt::register_probes() itself (lib.rs 272).
UserRegisterProbes ==
    /\ compiled = "ok"
    /\ ~rt.built
    /\ ~usdtRegistered
    /\ \E probes \in UsdtResults : usdtRegistered' = probes.ok
    /\ last' = NoCall
    /\ UNCHANGED <<tokio_unstable, idLayout, compiled, guardEvaluated, builder,
                   rt, thread, enabled, dtrace, nRegister, nOk, nEvents,
                   um_in, um_out>>

\* builder.build(): the runtime carries the callbacks the builder holds now.
Build(b) ==
    /\ compiled = "ok"
    /\ ~rt.built
    /\ rt' = [built |-> TRUE, from |-> b, regs |-> nOk[b],
              slots |-> builder[b].slots]
    /\ last' = NoCall
    /\ UNCHANGED <<tokio_unstable, idLayout, compiled, guardEvaluated,
                   usdtRegistered, builder, thread, enabled, dtrace, nRegister,
                   nOk, nEvents, um_in, um_out>>

\* A DTrace consumer enables a set of the provider's probes; it sees the
\* provider once the process has registered it.
DTraceEnable(sel) ==
    /\ usdtRegistered
    /\ rt.built
    /\ enabled # sel
    /\ enabled' = sel
    /\ UNCHANGED <<tokio_unstable, idLayout, compiled, guardEvaluated,
                   usdtRegistered, builder, last, rt, thread, dtrace, nRegister,
                   nOk, nEvents, um_in, um_out>>

\* The events a worker thread can be at: a poll ends only for the task the
\* thread is polling, and starts only when it is polling none.
EventOk(t, slot, meta) ==
    /\ slot \in ThreadSlots => meta = NoMeta
    /\ slot \in TaskSlots => meta \in TaskMetas
    /\ slot = "on_before_task_poll" => thread[t].polling = NoMeta
    /\ slot = "on_after_task_poll" => thread[t].polling = meta

\* A lifecycle event occurs on worker thread t: the runtime calls the
\* callback of its slot, synchronously, on that thread.
RuntimeEvent(t, slot, meta) ==
    /\ rt.built
    /\ thread[t].pc # "in_callback"
    /\ nEvents < MaxEvents
    /\ EventOk(t, slot, meta)
    /\ thread' = [thread EXCEPT ![t] =
            [pc |-> "in_callback", slot |-> slot, cb |-> rt.slots[slot],
             meta |-> meta, sites |-> <<>>,
             polling |-> CASE slot = "on_before_task_poll" -> meta
                           [] slot = "on_after_task_poll" -> NoMeta
                           [] OTHER -> @.polling]]
    /\ nEvents' = nEvents + 1
    /\ UNCHANGED <<tokio_unstable, idLayout, compiled, guardEvaluated,
                   usdtRegistered, builder, last, rt, enabled, dtrace,
                   nRegister, nOk, um_in, um_out>>

\* What DTrace records of the probe sites a callback executed on thread t.
Recorded(t, sites) ==
    [i \in 1..Len(SelectSeq(sites, LAMBDA x : x.enabled)) |->
        [thread |-> t,
         probe |-> SelectSeq(sites, LAMBDA x : x.enabled)[i].probe,
         args |-> SelectSeq(sites, LAMBDA x : x.enabled)[i].args]]

\* (a slip: the metadata handed to the probe through a static shared by the
\* threads, which another thread in its callback has overwritten)
CallbackReturn_shared(t) ==
    /\ thread[t].pc = "in_callback"
    /\ LET others == {u \in DOMAIN thread \ {t} :
                         thread[u].pc = "in_callback" /\ thread[u].meta # NoMeta}
           meta == IF others # {} /\ thread[t].meta # NoMeta
                   THEN thread[CHOOSE u \in others : TRUE].meta
                   ELSE thread[t].meta
           sites == RunCallback(thread[t].cb, thread[t].slot, meta, enabled)
       IN  /\ thread' = [thread EXCEPT ![t].pc = "returned", ![t].sites = sites]
           /\ dtrace' = dtrace \o Recorded(t, sites)
    /\ UNCHANGED <<tokio_unstable, idLayout, compiled, guardEvaluated,
                   usdtRegistered, builder, last, rt, enabled, nRegister,
                   nOk, nEvents, um_in, um_out>>

\* (a slip: the hook waits until a consumer has taken the event)
CallbackReturn_waiting(t) ==
    /\ thread[t].pc = "in_callback"
    /\ enabled # {}
    /\ LET sites == RunCallback(thread[t].cb, thread[t].slot, thread[t].meta,
                                enabled)
       IN  /\ thread' = [thread EXCEPT ![t].pc = "returned", ![t].sites = sites]
           /\ dtrace' = dtrace \o Recorded(t, sites)
    /\ UNCHANGED <<tokio_unstable, idLayout, compiled, guardEvaluated,
                   usdtRegistered, builder, last, rt, enabled, nRegister,
                   nOk, nEvents, um_in, um_out>>

\* The callback runs to its end on thread t and returns to the runtime.
CallbackReturn(t) ==
    /\ thread[t].pc = "in_callback"
    /\ LET sites == RunCallback(thread[t].cb, thread[t].slot, thread[t].meta,
                                enabled)
       IN  /\ thread' = [thread EXCEPT ![t].pc = "returned", ![t].sites = sites]
           /\ dtrace' = dtrace \o Recorded(t, sites)
    /\ UNCHANGED <<tokio_unstable, idLayout, compiled, guardEvaluated,
                   usdtRegistered, builder, last, rt, enabled, nRegister,
                   nOk, nEvents, um_in, um_out>>

\* The metadata unpacker applied to the metadata um_in.
Unpack ==
    /\ compiled = "ok"
    /\ um_in # NoMeta
    /\ um_out = <<>>
    /\ um_out' = unpack_meta(um_in)
    /\ UNCHANGED <<tokio_unstable, idLayout, compiled, guardEvaluated,
                   usdtRegistered, builder, last, rt, thread, enabled, dtrace,
                   nRegister, nOk, nEvents, um_in>>

Next ==
    \/ Compile
    \/ \E b \in DOMAIN builder : RegisterHooks(b)
    \/ \E b \in DOMAIN builder, slot \in UserSlots, fn \in {UserFn, OtherFn} :
          UserSetHook(b, slot, fn)
    \/ \E b \in DOMAIN builder, opt \in Settings : Configure(b, opt)
    \/ UserRegisterProbes
    \/ \E b \in DOMAIN builder : Build(b)
    \/ \E sel \in ProbeSelections : DTraceEnable(sel)
    \/ \E t \in DOMAIN thread, slot \in Slots, meta \in TaskMetas \cup {NoMeta} :
          RuntimeEvent(t, slot, meta)
    \/ \E t \in DOMAIN thread : CallbackReturn(t)

Spec == Init /\ [][Next]_vars

\* The task metadata the unpacker is checked on: identifiers with bits in
\* every 16-bit limb, zero among them, and two spawn locations.
UnpackInputs ==
    {[id |-> <<n0, n1, 0, n3, n4, 0, 0, n7>>,
      spawned_at |-> [file |-> f, line |-> l, column |-> c]] :
        n0 \in {0, 42, 255}, n1 \in {0, 1}, n3 \in {0, 9}, n4 \in {0, 1},
        n7 \in {0, 128}, f \in {"app.rs", "lib.rs"}, l \in {7, 1},
        c \in {3, 7}}

\* A build with tokio_unstable, where the hooks module and with it
\* unpack_meta exist, holding one task's metadata.
InitUnpack ==
    /\ tokio_unstable = TRUE
    /\ idLayout = [size |-> U64Size, align |-> U64Align]
    /\ compiled = "ok"
    /\ guardEvaluated = TRUE
    /\ usdtRegistered = FALSE
    /\ builder = [b \in {"b1"} |-> FreshBuilder]
    /\ last = NoCall
    /\ rt = NoRt
    /\ thread = [t \in {"w1"} |-> IdleThread]
    /\ enabled = {}
    /\ dtrace = <<>>
    /\ nRegister = 0
    /\ nOk = [b \in {"b1"} |-> 0]
    /\ nEvents = 0
    /\ um_in \in UnpackInputs
    /\ um_out = <<>>

NextUnpack == Unpack

SpecUnpack == InitUnpack /\ [][NextUnpack]_vars

\* The program of examples/basic.rs once its runtime is built, in a build
\* with tokio_unstable: register_hooks has succeeded on the one builder, and
\* the multi-thread runtime has the worker threads ts.
InitBuilt(ts) ==
    LET r == register_hooks("b1", FreshBuilder, TRUE, [ok |-> TRUE, err |-> ""])
    IN  /\ tokio_unstable = TRUE
        /\ idLayout = [size |-> U64Size, align |-> U64Align]
        /\ compiled = "ok"
        /\ guardEvaluated = TRUE
        /\ usdtRegistered = r.registered
        /\ builder = [b \in {"b1"} |-> r.builder]
        /\ last = NoCall
        /\ rt = [built |-> TRUE, from |-> "b1", regs |-> 1,
                 slots |-> r.builder.slots]
        /\ thread = [t \in ts |-> IdleThread]
        /\ dtrace = <<>>
        /\ nRegister = 1
        /\ nOk = [b \in {"b1"} |-> 1]
        /\ nEvents = 0
        /\ um_in = NoMeta
        /\ um_out = <<>>

\* The hooks called from two worker threads, while a DTrace consumer
\* enables and disables probes.
InitHooks == InitBuilt({"w1", "w2"}) /\ enabled = {}

NextHooks ==
    \/ \E sel \in ProbeSelections : DTraceEnable(sel)
    \/ \E t \in DOMAIN thread, slot \in Slots, meta \in TaskMetas \cup {NoMeta} :
          RuntimeEvent(t, slot, meta)
    \/ \E t \in DOMAIN thread : CallbackReturn(t)

SpecHooks == InitHooks /\ [][NextHooks]_vars

\* The same with a consumer that has every probe enabled throughout: dtrace
\* is then the history of the probes fired.
InitTraced == InitBuilt({"w1", "w2"}) /\ enabled = Probes

NextTraced ==
    \/ \E t \in DOMAIN thread, slot \in Slots, meta \in TaskMetas \cup {NoMeta} :
          RuntimeEvent(t, slot, meta)
    \/ \E t \in DOMAIN thread : CallbackReturn(t)

SpecTraced == InitTraced /\ [][NextTraced]_vars

\* Two builders configured by one application, up to the build of a runtime.
InitBuilders == InitWith({"b1", "b2"}, {"w1"})

NextBuilders ==
    \/ Compile
    \/ \E b \in DOMAIN builder : RegisterHooks(b)
    \/ \E b \in DOMAIN builder, slot \in UserSlots, fn \in {UserFn, OtherFn} :
          UserSetHook(b, slot, fn)
    \/ \E b \in DOMAIN builder, opt \in Settings : Configure(b, opt)

SpecBuilders == InitBuilders /\ [][NextBuilders]_vars

\* -------------------------------------------------- the registrar's claims

\* What a call of register_hooks that has just returned was given and did.
Registered == last.op = "register_hooks"
Before == last.pre
After == builder[last.b]

\* The bridge function of the event of a slot: hooks::<the slot's name>.
BridgeOf(slot) == "hooks::" \o slot

\* C1: without --cfg tokio_unstable every call of register_hooks returns
\* UnstableFeaturesRequired, does not call the probe backend, and leaves the
\* builder, its eight slots included, as it was.
C1_UnstableFeaturesRequired ==
    (Registered /\ ~tokio_unstable) =>
        /\ last.out = Err("UnstableFeaturesRequired", "")
        /\ ~last.backendCalled
        /\ usdtRegistered = last.regBefore
        /\ \A s \in Slots : After.slots[s] = Before.slots[s]
        /\ (Before = FreshBuilder => \A s \in Slots : After.slots[s] = Unset)

\* A refused call on a builder that already carried a callback.
C1_Witness ==
    /\ Registered /\ ~tokio_unstable
    /\ Before.slots["on_thread_park"] = OtherFn
    /\ last.out.err = "UnstableFeaturesRequired"

\* C2: with tokio_unstable, when usdt::register_probes() fails, register_hooks
\* returns that error as RegistrationError::DTrace and every slot holds what
\* it held before the call.
C2_BackendFailureInstallsNothing ==
    (Registered /\ tokio_unstable /\ ~last.probes.ok) =>
        /\ last.out = Err("DTrace", last.probes.err)
        /\ \A s \in Slots : After.slots[s] = Before.slots[s]

\* The backend fails on a builder that carries the hooks of an earlier call.
C2_Witness ==
    /\ Registered /\ tokio_unstable /\ ~last.probes.ok
    /\ last.okBefore = 1
    /\ \A s \in Slots : Before.slots[s] = BridgeOf(s)
    /\ last.out.source = "usdt::Error::LibDtrace"

\* C3: with tokio_unstable, when usdt::register_probes() succeeds,
\* register_hooks sets each of the eight slots to the bridge function of
\* that slot's event, changes no other setting, and returns the handle it
\* was given.
C3_SuccessSetsEightSlots ==
    (Registered /\ tokio_unstable /\ last.probes.ok) =>
        /\ \A s \in Slots : After.slots[s] = BridgeOf(s)
        /\ After.settings = Before.settings
        /\ DOMAIN After = DOMAIN Before
        /\ last.out = Ok(last.b)

\* A successful call on a builder with a setting and a callback of its own.
C3_Witness ==
    /\ Registered /\ tokio_unstable /\ last.probes.ok
    /\ Before.settings = {"enable_all"}
    /\ Before.slots["on_thread_park"] = OtherFn
    /\ After.slots["on_thread_park"] = "hooks::on_thread_park"

\* The callbacks of the runtime that ran to their end, one per event
\* occurrence.
Returned == {t \in DOMAIN thread : thread[t].pc = "returned"}

\* C4: a repeated successful call of register_hooks on a builder returns no
\* error and leaves the slots as the first call left them, and a runtime
\* built from such a builder executes one probe site per event occurrence,
\* however often the builder was registered.
C4_RegistrationIdempotent ==
    /\ (Registered /\ tokio_unstable /\ last.probes.ok /\ last.okBefore >= 1) =>
          /\ last.out.tag = "Ok"
          /\ (\A s \in Slots : Before.slots[s] = BridgeOf(s)) =>
                 After.slots = Before.slots
    /\ \A t \in Returned :
          (rt.regs >= 1 /\ thread[t].cb \in HookFns) =>
              /\ Len(thread[t].sites) = 1
              /\ Len(dtrace) <= nEvents

\* A runtime built from a builder registered twice has run a hook.
C4_Witness ==
    /\ rt.built /\ rt.regs = 2
    /\ \E t \in Returned :
          /\ thread[t].cb = "hooks::on_task_spawn"
          /\ Len(thread[t].sites) = 1
          /\ Len(dtrace) = 1

\* C5: a slot holds the last callback written to it.  A callback the
\* application sets after register_hooks replaces the bridge function of
\* that slot and of no other; a register_hooks call after the application
\* set a callback replaces it with the bridge function.
C5_LastWriteWins ==
    /\ last.op = "set_hook" =>
          /\ After.slots[last.slot] = last.fn
          /\ \A s \in Slots \ {last.slot} : After.slots[s] = Before.slots[s]
    /\ (Registered /\ last.out.tag = "Ok") =>
          \A s \in Slots :
             Before.slots[s] \in {UserFn, OtherFn} => After.slots[s] = BridgeOf(s)

\* register_hooks, then the application's wrapper on the task-spawn slot.
C5_Witness ==
    /\ last.op = "set_hook" /\ last.slot = "on_task_spawn" /\ last.fn = UserFn
    /\ \A s \in Slots : Before.slots[s] = BridgeOf(s)
    /\ \A s \in Slots \ {"on_task_spawn"} : After.slots[s] = BridgeOf(s)
    /\ After.slots["on_task_spawn"] = UserFn

\* ------------------------------------------------------ the hooks' claims

\* C6: register_hooks checks the casts and returns
\* RegistrationError::InvalidCasts when the layout of tokio::task::Id does
\* not allow them.
C6_InvalidCastsReported ==
    (Registered /\ ~LayoutGuard(idLayout)) =>
        last.out = Err("InvalidCasts", "")

\* The probe of the event each hook function is named after, and whether
\* it carries the task's metadata.
ProbeOfHook(fn) ==
    CASE fn = "hooks::on_task_spawn"       -> "task__spawn"
      [] fn = "hooks::on_before_task_poll" -> "task__poll__start"
      [] fn = "hooks::on_after_task_poll"  -> "task__poll__end"
      [] fn = "hooks::on_task_terminate"   -> "task__terminate"
      [] fn = "hooks::on_thread_start"     -> "worker__thread__start"
      [] fn = "hooks::on_thread_stop"      -> "worker__thread__stop"
      [] fn = "hooks::on_thread_park"      -> "worker__thread__park"
      [] fn = "hooks::on_thread_unpark"    -> "worker__thread__unpark"

\* The arguments (task_id, file, line, column) of a task's metadata.
IsPayloadOf(args, meta) ==
    /\ Len(args) = 4
    /\ U64ToBytes(args[1]) = meta.id
    /\ args[2] = meta.spawned_at.file
    /\ args[3] = meta.spawned_at.line
    /\ args[4] = meta.spawned_at.column

\* C7: one invocation of a hook function executes exactly one probe site,
\* that of the probe of its own event; a task probe that fires carries
\* (task_id, file, line, column) of the task, a thread probe carries nothing.
C7_OneProbePerHook ==
    \A t \in Returned :
        thread[t].cb \in HookFns =>
            LET sites == thread[t].sites
            IN  /\ Len(sites) = 1
                /\ sites[1].probe = ProbeOfHook(thread[t].cb)
                /\ (sites[1].enabled /\ sites[1].probe \in TaskProbes) =>
                       IsPayloadOf(sites[1].args, thread[t].meta)
                /\ sites[1].probe \in ThreadProbes => sites[1].args = <<>>

\* The poll-end hook fired its probe with the metadata of the second task.
C7_Witness ==
    \E t \in Returned :
        /\ thread[t].cb = "hooks::on_after_task_poll"
        /\ thread[t].sites[1].probe = "task__poll__end"
        /\ thread[t].sites[1].enabled
        /\ thread[t].sites[1].args = <<<<1, 0, 1, 32768>>, "lib.rs", 3, 7>>

\* C8: the runtime calls a hook function that register_hooks installed only
\* after usdt::register_probes() has succeeded.
C8_RegisteredBeforeFired ==
    \A t \in DOMAIN thread :
        (thread[t].pc # "idle" /\ thread[t].cb \in HookFns) => usdtRegistered

\* A hook installed by register_hooks fired its probe.
C8_Witness ==
    /\ usdtRegistered
    /\ \E t \in Returned :
          /\ thread[t].cb = "hooks::on_thread_unpark"
          /\ thread[t].sites[1].enabled

\* The threads on which a task identifier was reinterpreted as a u64.
Reinterpreted ==
    {t \in Returned :
        \E i \in 1..Len(thread[t].sites) :
            thread[t].sites[i].enabled /\ thread[t].sites[i].probe \in TaskProbes}

\* C9 as stated: the guard is evaluated in every build configuration, and a
\* build whose identifier layout differs from that of u64 does not proceed.
C9_GuardInEveryBuild ==
    compiled # "source" =>
        /\ guardEvaluated
        /\ ~LayoutGuard(idLayout) => compiled = "error"

\* C9, amended: the guard is evaluated in every build with tokio_unstable,
\* and such a build fails if the size or the alignment differs; a build
\* without tokio_unstable has no hooks module and reinterprets nothing; so
\* no identifier is reinterpreted unless both equal those of u64.
C9_GuardWhereHooksExist ==
    /\ (compiled # "source" /\ tokio_unstable) =>
          /\ guardEvaluated
          /\ (idLayout.size # U64Size \/ idLayout.align # U64Align) =>
                 compiled = "error"
    /\ ~tokio_unstable =>
          \A t \in DOMAIN thread : thread[t].cb \notin HookFns \cup {UserFn}
    /\ Reinterpreted # {} =>
          idLayout.size = U64Size /\ idLayout.align = U64Align

\* A build with tokio_unstable refused for the alignment alone.
C9_Witness ==
    /\ tokio_unstable /\ guardEvaluated /\ compiled = "error"
    /\ idLayout.size = U64Size /\ idLayout.align # U64Align

\* C10: unpack_meta returns (task_id, file, line, column), task_id holding
\* the bits of the task's identifier (so distinct identifiers give distinct
\* task_ids, and zero is a value like any other) and the rest the spawn
\* location; it has no other outcome.
C10_UnpackFaithful ==
    um_out # <<>> =>
        /\ IsPayloadOf(um_out, um_in)
        /\ \A i \in 1..4 : um_out[1][i] \in 0..(ByteMod * ByteMod - 1)
        /\ \A m \in UnpackInputs :
              m.id # um_in.id => id_to_u64(m.id) # um_out[1]

\* The task 42 spawned at app.rs:7:3.
C10_Witness ==
    /\ um_in = [id |-> <<42, 0, 0, 0, 0, 0, 0, 0>>,
                spawned_at |-> [file |-> "app.rs", line |-> 7, column |-> 3]]
    /\ um_out = <<<<42, 0, 0, 0>>, "app.rs", 7, 3>>

\* ------------------------------------------------ the hooks under threads

\* The step in which the callback of thread t returns to the runtime.
HookReturns(t) ==
    /\ thread[t].pc = "in_callback"
    /\ thread'[t].pc = "returned"

\* The event a firing of probe by thread t for the metadata meta leaves in a
\* consumer's record.
IsFiringOf(e, t, probe, meta) ==
    /\ e.thread = t
    /\ e.probe = probe
    /\ IF probe \in TaskProbes THEN IsPayloadOf(e.args, meta) ELSE e.args = <<>>

\* C11: under any interleaving of the hooks on the worker threads, the hook
\* called for an event executes exactly one probe site, that of its own event,
\* and an enabled probe adds exactly one firing to the record, carrying the
\* metadata of the call that made it; nothing else adds a firing, and the
\* return of one thread's hook changes nothing of another thread's call.
C11_OneFiringPerEvent ==
    [][/\ \A t \in DOMAIN thread :
            (HookReturns(t) /\ thread[t].cb \in HookFns) =>
                LET probe == ProbeOfHook(thread[t].cb)
                    n == Len(dtrace)
                IN  /\ thread[t].cb = BridgeOf(thread[t].slot)
                    /\ Len(thread'[t].sites) = 1
                    /\ thread'[t].sites[1].probe = probe
                    /\ thread'[t].meta = thread[t].meta
                    /\ IF probe \in enabled
                       THEN /\ Len(dtrace') = n + 1
                            /\ SubSeq(dtrace', 1, n) = dtrace
                            /\ IsFiringOf(dtrace'[n + 1], t, probe, thread[t].meta)
                       ELSE dtrace' = dtrace
                    /\ \A u \in DOMAIN thread \ {t} : thread'[u] = thread[u]
       /\ (\A t \in DOMAIN thread : ~HookReturns(t)) => dtrace' = dtrace
      ]_vars

\* Both threads were in their hooks for different tasks; w2 has returned and
\* its firing is recorded with its own task, w1 is still in its hook.
C11_Witness ==
    /\ thread["w1"].pc = "in_callback"
    /\ thread["w1"].cb = "hooks::on_task_spawn"
    /\ thread["w2"].pc = "returned"
    /\ thread["w2"].cb = "hooks::on_task_terminate"
    /\ thread["w1"].meta # thread["w2"].meta
    /\ Len(dtrace) = 1
    /\ IsFiringOf(dtrace[1], "w2", "task__terminate", thread["w2"].meta)

\* The task-poll probes fired by thread t, in the order they were fired.
IsPollOf(t, e) == e.thread = t /\ e.probe \in {"task__poll__start", "task__poll__end"}

PollLog(t) ==
    LET Pick(e) == IsPollOf(t, e) IN SelectSeq(dtrace, Pick)

\* C12: on each worker thread the task-poll probes fired are well nested: they
\* alternate task-poll-start, task-poll-end, each task-poll-end carries the
\* task of the task-poll-start just before it, so that no task-poll-start of
\* another task lies between the two. The probes of different threads are
\* interleaved in any order.
C12_PollsWellNested ==
    \A t \in DOMAIN thread :
        LET log == PollLog(t)
        IN  \A i \in 1..Len(log) :
                IF i % 2 = 1
                THEN log[i].probe = "task__poll__start"
                ELSE /\ log[i].probe = "task__poll__end"
                     /\ log[i].args = log[i - 1].args

\* w1 has fired task-poll-start and then the task-poll-end of the same task.
C12_Witness ==
    /\ Len(PollLog("w1")) = 2
    /\ PollLog("w1")[1].probe = "task__poll__start"
    /\ PollLog("w1")[2].probe = "task__poll__end"
    /\ \E meta \in TaskMetas : /\ IsPayloadOf(PollLog("w1")[1].args, meta)
                               /\ IsPayloadOf(PollLog("w1")[2].args, meta)

\* C13: a hook that has started can always take its step back to the runtime,
\* whatever the other threads are doing and whatever the consumer has
\* enabled: it waits on no other thread and on no consumer, and it is in no
\* state other than running or returned (it has no error or panic exit).
C13_HooksAlwaysReturn ==
    \A t \in DOMAIN thread :
        /\ thread[t].pc \in {"idle", "in_callback", "returned"}
        /\ thread[t].pc = "in_callback" => ENABLED CallbackReturn(t)

\* Two hooks are running at once, with no consumer attached.
C13_Witness ==
    /\ enabled = {}
    /\ thread["w1"].pc = "in_callback"
    /\ thread["w2"].pc = "in_callback"
    /\ thread["w1"].cb \in HookFns
    /\ thread["w2"].cb \in HookFns

\* C14: a hook of a task event called while its probe is not enabled records
\* no event and does not unpack the metadata (its probe site evaluates no
\* arguments), and still returns to the runtime.
C14_DisabledProbeIsNoOp ==
    [][\A t \in DOMAIN thread :
          (/\ thread[t].pc = "in_callback"
           /\ thread[t].cb \in HookFns
           /\ ProbeOfHook(thread[t].cb) \notin enabled
           /\ thread'[t] # thread[t]) =>
              /\ thread'[t].pc = "returned"
              /\ dtrace' = dtrace
              /\ \A i \in 1..Len(thread'[t].sites) :
                    /\ ~thread'[t].sites[i].enabled
                    /\ thread'[t].sites[i].args = <<>>
      ]_vars

\* The task-spawn hook has returned with its probe disabled: nothing was
\* recorded and nothing unpacked, while thread probes were enabled or not.
C14_Witness ==
    /\ thread["w1"].pc = "returned"
    /\ thread["w1"].cb = "hooks::on_task_spawn"
    /\ thread["w1"].meta \in TaskMetas
    /\ "task__spawn" \notin enabled
    /\ Len(thread["w1"].sites) = 1
    /\ ~thread["w1"].sites[1].enabled
    /\ thread["w1"].sites[1].args = <<>>
    /\ dtrace = <<>>

\* ------------------------------------------------------------ two builders

\* The step is a call of register_hooks on builder b.
RegisterStep(b) ==
    /\ nRegister' = nRegister + 1
    /\ last'.op = "register_hooks"
    /\ last'.b = b

\* C15: a call of register_hooks on one builder changes nothing of another
\* builder, whether it succeeds or fails, and its outcome is that of a call
\* made alone: it depends on the build and on the backend's answer to this
\* call only, and on success installs the eight hooks in the called builder
\* and on failure leaves that builder as it was.
C15_BuildersIndependent ==
    [][\A b \in DOMAIN builder :
          RegisterStep(b) =>
              LET alone == register_hooks(b, builder[b], tokio_unstable,
                                          last'.probes)
              IN  /\ \A o \in DOMAIN builder \ {b} : builder'[o] = builder[o]
                  /\ last'.out = alone.out
                  /\ builder'[b] = alone.builder
                  /\ (last'.out.tag = "Ok") = (tokio_unstable /\ last'.probes.ok)
                  /\ IF last'.out.tag = "Ok"
                     THEN \A s \in Slots : builder'[b].slots[s] = BridgeOf(s)
                     ELSE builder'[b] = builder[b]
      ]_vars

\* register_hooks has succeeded on b1 and then failed on b2 in the backend:
\* b1 keeps its eight hooks and b2, with a callback of the application, is as
\* it was.
C15_Witness ==
    /\ last.op = "register_hooks"
    /\ last.b = "b2"
    /\ last.out.tag = "Err"
    /\ nOk["b1"] = 1
    /\ \A s \in Slots : builder["b1"].slots[s] = BridgeOf(s)
    /\ builder["b2"].slots["on_task_spawn"] = UserFn
    /\ builder["b2"] = last.pre

\* register_hooks has succeeded on both builders, one call after the other.
C15_BothRegistered ==
    /\ nOk["b1"] = 1
    /\ nOk["b2"] = 1
    /\ \A b \in DOMAIN builder, s \in Slots : builder[b].slots[s] = BridgeOf(s)

====
